---- MODULE Spec2Model ----
(***************************************************************************)
(* A model of repolab_create.py: the generator that reads repolab.yaml,    *)
(* validates its base section, and writes repolab.dockerfile,              *)
(* repolab_build.sh, repolab_run.sh and .dockerignore, then converts       *)
(* README.md to a notebook when it exists.                                 *)
(*                                                                         *)
(* Text is modelled by TLA+ strings with the exact characters of the       *)
(* source; files are strings; main() is a straight-line program whose      *)
(* position is pc.                                                         *)
(***************************************************************************)
EXTENDS Integers, Sequences, FiniteSets, TLC

(***************************************************************************)
(* Bounds of the model.                                                    *)
(***************************************************************************)
MaxPkgs == 2

MaxSrc == 2

(***************************************************************************)
(* File names (module constants of the program).                           *)
(***************************************************************************)
PROJECT_DIR == "/project"

PROJECT_FILE == "repolab.yaml"

DOCKER_FILE == "repolab.dockerfile"

BUILD_FILE == "repolab_build.sh"

RUN_FILE == "repolab_run.sh"

DOCKER_IGNORE_FILE == ".dockerignore"

README_FILE == "README.md"

NOTEBOOK_FILE == "README.ipynb"

SUPPORTED_SYSTEMS == <<"ubuntu", "centos">>

SUPPORTED_VERSIONS ==
    [ubuntu |-> <<"16.04", "18.04">>,
     centos |-> <<"7">>,
     cuda   |-> <<"8.0", "9.0", "9.1", "9.2", "10.0">>,
     opengl |-> <<"runtime", "devel">>]

(***************************************************************************)
(* The text templates, character for character.                            *)
(***************************************************************************)
DOCKER_JUPYTERLAB ==
    "\n"
    \o "ENV DEBIAN_FRONTEND noninteractive\n"
    \o "ENV LANG C.UTF-8\n"
    \o "ENV LC_ALL C.UTF-8\n"
    \o "\n"
    \o "RUN apt-get update && apt-get -yq dist-upgrade \\\n"
    \o " && apt-get install -yq --no-install-recommends \\\n"
    \o "\tlocales python-pip cmake \\\n"
    \o "\tpython3-pip python3-setuptools git build-essential \\\n"
    \o " && apt-get clean \\\n"
    \o " && rm -rf /var/lib/apt/lists/*\n"
    \o "\n"
    \o "RUN pip3 install jupyterlab bash_kernel \\\n"
    \o " && python3 -m bash_kernel.install\n"
    \o "\n"
    \o "ENV SHELL=/bin/bash \\\n"
    \o "\tNB_USER=jovyan \\\n"
    \o "\tNB_UID=1000 \\\n"
    \o "\tLANG=en_US.UTF-8 \\\n"
    \o "\tLANGUAGE=en_US.UTF-8\n"
    \o "\n"
    \o "ENV HOME=/home/${NB_USER}\n"
    \o "\n"
    \o "RUN adduser --disabled-password \\\n"
    \o "\t--gecos \"Default user\" \\\n"
    \o "\t--uid ${NB_UID} \\\n"
    \o "\t${NB_USER}\n"
    \o "\n"
    \o "EXPOSE 8888\n"
    \o "WORKDIR ${HOME}\n"
    \o "\n"
    \o "CMD [\"jupyter\", \"lab\", \"--no-browser\", \"--ip=0.0.0.0\", \"--NotebookApp.token=''\"]\n"

BUILD_SCRIPT ==
    "#!/bin/sh\n"
    \o "docker build -f %s -t %s ."

RUN_SCRIPT ==
    "#!/bin/sh\n"
    \o "docker run --rm -p 8888:8888 %s"

NVIDIA_RUN_SCRIPT ==
    "#!/bin/sh\n"
    \o "XAUTH=/tmp/.docker.xauth\n"
    \o "if [ ! -f $XAUTH ]\n"
    \o "then\n"
    \o "    xauth_list=$(xauth nlist :0 | sed -e 's/^..../ffff/')\n"
    \o "    if [ ! -z \"$xauth_list\" ]\n"
    \o "    then\n"
    \o "        echo $xauth_list | xauth -f $XAUTH nmerge -\n"
    \o "    else\n"
    \o "        touch $XAUTH\n"
    \o "    fi\n"
    \o "    chmod a+r $XAUTH\n"
    \o "fi\n"
    \o "docker run --rm \\\n"
    \o "    --env=\"DISPLAY\" \\\n"
    \o "    --env=\"QT_X11_NO_MITSHM=1\" \\\n"
    \o "    --volume=\"/tmp/.X11-unix:/tmp/.X11-unix:rw\" \\\n"
    \o "    --env=\"XAUTHORITY=$XAUTH\" \\\n"
    \o "    --volume=\"$XAUTH:$XAUTH\" \\\n"
    \o "    --runtime=nvidia \\\n"
    \o "    -p 8888:8888 %s"

DOCKER_APT ==
    "\n"
    \o "RUN apt-get update \\\n"
    \o " && apt-get install -yq --no-install-recommends \\\n"
    \o "%s && apt-get clean \\\n"
    \o " && rm -rf /var/lib/apt/lists/*\n"

DOCKER_CMAKE ==
    "\n"
    \o "RUN git clone %s /%s \\\n"
    \o " && cd /%s \\\n"
    \o " && mkdir build \\\n"
    \o " && cd build \\\n"
    \o " && cmake .. \\\n"
    \o " && make -j2 install \\\n"
    \o " && rm -fr /%s\n"

DOCKER_COPY_REPO ==
    "\n"
    \o "COPY . ${HOME}\n"
    \o "RUN chown -R ${NB_UID} ${HOME}\n"
    \o "USER ${NB_USER}\n"

DOCKER_BUILD_REPO ==
    "\n"
    \o "RUN mkdir build \\\n"
    \o " && cd build \\\n"
    \o " && cmake .. \\\n"
    \o " && make -j2\n"

NOTEBOOK_TAIL ==
    "\n"
    \o " \"metadata\": {\n"
    \o "  \"kernelspec\": {\n"
    \o "   \"display_name\": \"Bash\",\n"
    \o "   \"language\": \"bash\",\n"
    \o "   \"name\": \"bash\"\n"
    \o "  },\n"
    \o "  \"language_info\": {\n"
    \o "   \"codemirror_mode\": \"shell\",\n"
    \o "   \"file_extension\": \".sh\",\n"
    \o "   \"mimetype\": \"text/x-sh\",\n"
    \o "   \"name\": \"bash\"\n"
    \o "  }\n"
    \o " },\n"
    \o " \"nbformat\": 4,\n"
    \o " \"nbformat_minor\": 2\n"
    \o "}\n"

(***************************************************************************)
(* Python built-ins used by the program.                                   *)
(***************************************************************************)
None == "<None>"

Range(s) == {s[i] : i \in DOMAIN s}

\* x in list
InList(x, list) == \E i \in 1..Len(list) : list[i] = x

\* s[:n]
Prefix(s, n) == SubSeq(s, 1, IF Len(s) < n THEN Len(s) ELSE n)

UpperCase == "ABCDEFGHIJKLMNOPQRSTUVWXYZ"

LowerCase == "abcdefghijklmnopqrstuvwxyz"

\* one character of str.lower()
LowerChar(c) ==
    IF \E i \in 1..Len(UpperCase) : SubSeq(UpperCase, i, i) = c
    THEN LET i == CHOOSE i \in 1..Len(UpperCase) : SubSeq(UpperCase, i, i) = c
         IN  SubSeq(LowerCase, i, i)
    ELSE c

RECURSIVE lower(_)
\* str.lower()
lower(s) == IF s = "" THEN "" ELSE LowerChar(Head(s)) \o lower(Tail(s))

Digits == "0123456789"

Digit(d) == SubSeq(Digits, d + 1, d + 1)

RECURSIVE IntToStr(_)
\* str() of a non-negative int
IntToStr(n) == IF n < 10 THEN Digit(n) ELSE IntToStr(n \div 10) \o Digit(n % 10)

(***************************************************************************)
(* YAML scalars as yaml.load returns them: a quoted value is a str, an     *)
(* unquoted 18.04 is a float, an unquoted 7 is an int.  A float is kept as *)
(* its whole part and its hundredths.                                      *)
(***************************************************************************)
YStr(s) == [t |-> "str", s |-> s]

YInt(n) == [t |-> "int", n |-> n]

YFloat(w, h) == [t |-> "float", w |-> w, h |-> h]

\* str(): the shortest repr of a float drops the trailing zero but keeps one digit
str(v) ==
    CASE v.t = "str"   -> v.s
      [] v.t = "int"   -> IntToStr(v.n)
      [] v.t = "float" -> IntToStr(v.w) \o "." \o
                          (IF v.h % 10 = 0 THEN Digit(v.h \div 10)
                           ELSE Digit(v.h \div 10) \o Digit(v.h % 10))

\* the positions of "%s" in a template
Holes(t) == {i \in 1..(Len(t) - 1) : SubSeq(t, i, i + 1) = "%s"}

RECURSIVE Format(_, _)
\* template % args, for templates whose only conversions are %s
Format(t, args) ==
    IF args = <<>> \/ Holes(t) = {} THEN t
    ELSE LET i == CHOOSE i \in Holes(t) : \A j \in Holes(t) : i <= j
         IN  SubSeq(t, 1, i - 1) \o Head(args)
               \o Format(SubSeq(t, i + 2, Len(t)), Tail(args))

DOCKER_IGNORE_CONTENTS ==
    Format("README.md\n%s\n%s\n%s\n%s\n%s\n",
           <<DOCKER_IGNORE_FILE, PROJECT_FILE, DOCKER_FILE, BUILD_FILE, RUN_FILE>>)

Has(d, k) == k \in DOMAIN d

(***************************************************************************)
(* get_base_image.  The result is either the image reference or the        *)
(* diagnostic printed before sys.exit(1): the print template and its       *)
(* arguments.                                                              *)
(***************************************************************************)
Image(s) == [exit |-> 0, image |-> s, template |-> "", args |-> <<>>]

Fatal(template, args) == [exit |-> 1, image |-> None, template |-> template, args |-> args]

\* str(KeyError(k))
KeyErrorText(k) == "'" \o k \o "'"

MSG_KEY_FILE == "Key %s not found in file %s"

MSG_KEY_BASE == "Key %s not found in base: %s"

MSG_SYSTEM == "System %s is not supported. Valid options are: %s"

MSG_VERSION == "Version %s not supported in %s system. Valid options are: %s"

MSG_CUDA == "CUDA version %s not supported. Valid options are: %s"

MSG_OPENGL == "OpenGL option %s not supported. Valid options are: %s"

\* a faulty variant: the CUDA-only scheme is tried before the combined one
compose_image_cuda_first(system, version, cuda_version, opengl_option) ==
    IF cuda_version # None
    THEN "nvidia/cuda:" \o cuda_version \o "-cudnn7-devel-" \o system \o version
    ELSE IF cuda_version # None /\ opengl_option # None
    THEN "nvidia/cudagl:" \o cuda_version \o "-devel-" \o system \o version
    ELSE IF opengl_option # None
    THEN "nvidia/opengl:1.0-glvnd-devel-" \o system \o version
    ELSE system \o ":" \o version

\* lines 63-70: the reference composed from the validated parts
compose_image(system, version, cuda_version, opengl_option) ==
    IF cuda_version # None /\ opengl_option # None
    THEN "nvidia/cudagl:" \o cuda_version \o "-devel-" \o system \o version
    ELSE IF cuda_version # None
    THEN "nvidia/cuda:" \o cuda_version \o "-cudnn7-devel-" \o system \o version
    ELSE IF opengl_option # None
    THEN "nvidia/opengl:1.0-glvnd-devel-" \o system \o version
    ELSE system \o ":" \o version

\* a faulty variant: the CUDA whitelist is consulted before the version whitelist
get_base_image_cuda_before_version(yaml_file) ==
    IF ~Has(yaml_file, "base")
    THEN Fatal(MSG_KEY_FILE, <<KeyErrorText("base"), PROJECT_FILE>>)
    ELSE
    LET base == yaml_file["base"] IN
    IF ~Has(base, "system")
    THEN Fatal(MSG_KEY_BASE, <<KeyErrorText("system"), base>>)
    ELSE IF ~Has(base, "version")
    THEN Fatal(MSG_KEY_BASE, <<KeyErrorText("version"), base>>)
    ELSE
    LET system  == lower(base["system"])
        version == str(base["version"])
    IN
    IF ~InList(system, SUPPORTED_SYSTEMS)
    THEN Fatal(MSG_SYSTEM, <<system, SUPPORTED_SYSTEMS>>)
    ELSE
    LET cuda_version == IF Has(base, "cuda") THEN str(base["cuda"]) ELSE None IN
    IF Has(base, "cuda") /\ ~InList(cuda_version, SUPPORTED_VERSIONS["cuda"])
    THEN Fatal(MSG_CUDA, <<cuda_version, SUPPORTED_VERSIONS["cuda"]>>)
    ELSE IF ~InList(version, SUPPORTED_VERSIONS[system])
    THEN Fatal(MSG_VERSION, <<version, system, SUPPORTED_VERSIONS[system]>>)
    ELSE
    LET opengl_option == IF Has(base, "opengl") THEN str(base["opengl"]) ELSE None IN
    IF Has(base, "opengl") /\ ~InList(opengl_option, SUPPORTED_VERSIONS["opengl"])
    THEN Fatal(MSG_OPENGL, <<opengl_option, SUPPORTED_VERSIONS["opengl"]>>)
    ELSE Image(compose_image(system, version, cuda_version, opengl_option))

get_base_image(yaml_file) ==
    IF ~Has(yaml_file, "base")
    THEN Fatal(MSG_KEY_FILE, <<KeyErrorText("base"), PROJECT_FILE>>)
    ELSE
    LET base == yaml_file["base"] IN
    IF ~Has(base, "system")
    THEN Fatal(MSG_KEY_BASE, <<KeyErrorText("system"), base>>)
    ELSE IF ~Has(base, "version")
    THEN Fatal(MSG_KEY_BASE, <<KeyErrorText("version"), base>>)
    ELSE
    LET system  == lower(base["system"])
        version == str(base["version"])
    IN
    IF ~InList(system, SUPPORTED_SYSTEMS)
    THEN Fatal(MSG_SYSTEM, <<system, SUPPORTED_SYSTEMS>>)
    ELSE IF ~InList(version, SUPPORTED_VERSIONS[system])
    THEN Fatal(MSG_VERSION, <<version, system, SUPPORTED_VERSIONS[system]>>)
    ELSE
    LET cuda_version == IF Has(base, "cuda") THEN str(base["cuda"]) ELSE None IN
    IF Has(base, "cuda") /\ ~InList(cuda_version, SUPPORTED_VERSIONS["cuda"])
    THEN Fatal(MSG_CUDA, <<cuda_version, SUPPORTED_VERSIONS["cuda"]>>)
    ELSE
    LET opengl_option == IF Has(base, "opengl") THEN str(base["opengl"]) ELSE None IN
    IF Has(base, "opengl") /\ ~InList(opengl_option, SUPPORTED_VERSIONS["opengl"])
    THEN Fatal(MSG_OPENGL, <<opengl_option, SUPPORTED_VERSIONS["opengl"]>>)
    ELSE Image(compose_image(system, version, cuda_version, opengl_option))

\* a faulty variant: the slice is one character short
is_nvidia_short_slice(base_image) == Prefix(base_image, 5) = "nvidia"

is_nvidia(base_image) == Prefix(base_image, 6) = "nvidia"

(***************************************************************************)
(* The fragment functions.                                                 *)
(***************************************************************************)
RECURSIVE PackageLines_prepending(_)
\* a faulty variant: each line is put in front of the others
PackageLines_prepending(packages) ==
    IF packages = <<>> THEN ""
    ELSE PackageLines_prepending(Tail(packages)) \o "    " \o Head(packages) \o " \\\n"

RECURSIVE PackageLines(_)
\* the loop  for p in packages: pstr += '    ' + p + ' \\\n'
PackageLines(packages) ==
    IF packages = <<>> THEN ""
    ELSE "    " \o Head(packages) \o " \\\n" \o PackageLines(Tail(packages))

apt_packages(yaml_file) ==
    IF Has(yaml_file, "apt-packages")
    THEN Format(DOCKER_APT, <<PackageLines(yaml_file["apt-packages"])>>)
    ELSE ""

\* a faulty variant: an empty depends list still gets an install block
source_package_any_depends(p) ==
    (IF Has(p, "depends")
     THEN Format(DOCKER_APT, <<PackageLines(p["depends"])>>)
     ELSE "")
    \o Format(DOCKER_CMAKE, <<p["repo"], p["name"], p["name"], p["name"]>>)

\* one iteration of the loop of source_packages
source_package(p) ==
    (IF Has(p, "depends") /\ p["depends"] # <<>>
     THEN Format(DOCKER_APT, <<PackageLines(p["depends"])>>)
     ELSE "")
    \o Format(DOCKER_CMAKE, <<p["repo"], p["name"], p["name"], p["name"]>>)

RECURSIVE SourceBlocks(_)
SourceBlocks(packages) ==
    IF packages = <<>> THEN ""
    ELSE source_package(Head(packages)) \o SourceBlocks(Tail(packages))

source_packages(yaml_file) ==
    IF Has(yaml_file, "source-packages")
    THEN SourceBlocks(yaml_file["source-packages"])
    ELSE ""

RECURSIVE CommandLines(_)
\* the loop  for c in custom: s += "RUN " + c + "\n"
CommandLines(commands) ==
    IF commands = <<>> THEN ""
    ELSE "RUN " \o Head(commands) \o "\n" \o CommandLines(Tail(commands))

custom_commands(yaml_file) == CommandLines(yaml_file["custom"])

\* a faulty variant: the default build block follows the custom commands
build_commands_both(yaml_file) ==
    IF Has(yaml_file, "custom")
    THEN custom_commands(yaml_file) \o DOCKER_BUILD_REPO
    ELSE DOCKER_BUILD_REPO

\* lines 236-239: what main writes last into the build specification
build_commands(yaml_file) ==
    IF Has(yaml_file, "custom") THEN custom_commands(yaml_file) ELSE DOCKER_BUILD_REPO

\* lines 246-249
run_script(base_image) == IF is_nvidia(base_image) THEN NVIDIA_RUN_SCRIPT ELSE RUN_SCRIPT

(***************************************************************************)
(* The shell pipeline  notedown README.md | head -n -4 > README.ipynb      *)
(***************************************************************************)
\* head -n -K: all but the last K lines
HeadAllBut(lines, k) == IF Len(lines) > k THEN SubSeq(lines, 1, Len(lines) - k) ELSE <<>>

RECURSIVE JoinLines(_)
JoinLines(lines) ==
    IF lines = <<>> THEN "" ELSE Head(lines) \o "\n" \o JoinLines(Tail(lines))

HEAD_DROP == 4

notedown_pipeline(stdout_lines) == JoinLines(HeadAllBut(stdout_lines, HEAD_DROP))

(***************************************************************************)
(* The inputs: the contents of repolab.yaml and the state of the project   *)
(* directory before a run.                                                 *)
(***************************************************************************)
\* all sequences over S of length at most n
SeqsUpTo(S, n) == UNION {[1..k -> S] : k \in 0..n}

\* an optional value: the empty set when absent, else a singleton
Opt(V) == {{}} \cup {{v} : v \in V}

\* the mapping yaml.load builds from the keys that are present
Mapping(fields) ==
    LET present == {i \in DOMAIN fields : fields[i][2] # {}}
    IN  [k \in {fields[i][1] : i \in present} |->
            LET i == CHOOSE i \in present : fields[i][1] = k
            IN  CHOOSE v \in fields[i][2] : TRUE]

Systems == {"ubuntu", "Ubuntu", "centos", "fedora"}

VersionValues == {YStr("18.04"), YFloat(18, 4), YFloat(18, 10), YInt(7), YFloat(7, 0)}

CudaValues == {YFloat(10, 0), YFloat(9, 20), YStr("7.0")}

OpenGLValues == {YStr("devel"), YStr("full")}

BaseOf(s, v, c, g) ==
    Mapping(<< <<"system", s>>, <<"version", v>>, <<"cuda", c>>, <<"opengl", g>> >>)

\* every base section over the values above, each key present or not
Bases ==
    {BaseOf(s, v, c, g) : s \in Opt(Systems), v \in Opt(VersionValues),
                          c \in Opt(CudaValues), g \in Opt(OpenGLValues)}

\* two base sections that pass validation: a plain one and a GPU one
FragmentBases ==
    {BaseOf({"ubuntu"}, {YStr("18.04")}, c, {}) : c \in Opt({YStr("10.0")})}

Packages == {"vim", "git"}

AptLists == Opt(SeqsUpTo(Packages, MaxPkgs))

SourceEntries ==
    {[repo |-> "https://github.com/a/liba", name |-> "liba"],
     [repo |-> "https://github.com/b/libb", name |-> "libb", depends |-> <<>>],
     [repo |-> "https://github.com/c/libc", name |-> "libc",
      depends |-> <<"libx11-dev", "vim">>]}

SourceLists == Opt(SeqsUpTo(SourceEntries, MaxSrc))

Commands == {"pip3 install numpy", "make -C src"}

CustomLists == Opt(SeqsUpTo(Commands, MaxPkgs))

SomeApt == Opt({<<"vim">>})

SomeSource == Opt({<<[repo |-> "https://github.com/a/liba", name |-> "liba"]>>})

SomeCustom == Opt({<<"make -C src">>})

Names == Opt({"demo"})

ConfigOf(n, b, a, s, c) ==
    Mapping(<< <<"name", n>>, <<"base", b>>, <<"apt-packages", a>>,
               <<"source-packages", s>>, <<"custom", c>> >>)

\* the optional sections: every value of one section with the other two
\* absent, and every combination of presence of the three
Sections ==
    {<<a, {}, {}>> : a \in AptLists}
    \cup {<<{}, s, {}>> : s \in SourceLists}
    \cup {<<{}, {}, c>> : c \in CustomLists}
    \cup (SomeApt \X SomeSource \X SomeCustom)

\* The configurations: every base section with no optional section, and
\* the optional sections above over a valid base.
Configs ==
    {ConfigOf(n, b, {}, {}, {}) : n \in Names, b \in Opt(Bases)}
    \cup {ConfigOf(n, {b}, o[1], o[2], o[3]) : n \in Names, b \in FragmentBases, o \in Sections}

\* repolab.yaml on disk: absent, not valid YAML, or a mapping
ProjectFiles ==
    {[state |-> "missing", doc |-> Mapping(<<>>)], [state |-> "malformed", doc |-> Mapping(<<>>)]}
    \cup {[state |-> "ok", doc |-> c] : c \in Configs}

\* what "notedown README.md" can do: its exit status and the lines it prints
NotedownRuns ==
    {[status |-> 0,
      lines |-> <<"{", " \"cells\": [", "  {\"cell_type\": \"markdown\", \"source\": [\"# demo\"]}",
                  " ],", " \"metadata\": {},", " \"nbformat\": 4,", " \"nbformat_minor\": 2", "}">>],
     [status |-> 1, lines |-> <<"{", " \"cells\": [">>],
     [status |-> 127, lines |-> <<>>]}

GeneratedFiles == {DOCKER_FILE, BUILD_FILE, RUN_FILE, DOCKER_IGNORE_FILE}

FileNames == GeneratedFiles \cup {NOTEBOOK_FILE}

Scripts == {BUILD_FILE, RUN_FILE}

\* the project directory before the first run: empty of generated files, or
\* holding files left by an earlier run for another project
FreshDir == [f \in FileNames |-> None]

StaleDir == [f \in FileNames |-> "stale " \o f \o "\n"]

(***************************************************************************)
(* The state.                                                              *)
(***************************************************************************)
VARIABLES
    project_file,  \* repolab.yaml on disk
    readme,        \* os.path.isfile("README.md")
    files,         \* content of each generated file, None when it does not exist
    executable,    \* whether each script has its execute bits set
    pc,            \* the position of main()
    yaml_file,     \* the local of main()
    base_image,    \* the local of main()
    stdout,        \* the diagnostic printed: template and arguments
    traceback,     \* the uncaught exception, None if there is none
    exit_status,   \* -1 while the process runs
    notedown       \* the outcome of the last os.system call

vars ==
    <<project_file, readme, files, executable, pc, yaml_file, base_image,
      stdout, traceback, exit_status, notedown>>

NoOutput == [template |-> "", args |-> <<>>]

NotRun == [status |-> 0, lines |-> <<>>]

Init ==
    /\ project_file \in ProjectFiles
    /\ \E stale \in BOOLEAN :
          /\ files = IF stale THEN StaleDir ELSE FreshDir
          /\ executable = [f \in Scripts |-> stale]
          /\ readme \in (IF stale THEN {TRUE} ELSE BOOLEAN)
    /\ pc = "read_yaml_file"
    /\ yaml_file = Mapping(<<>>)
    /\ base_image = None
    /\ stdout = NoOutput
    /\ traceback = None
    /\ exit_status = -1
    /\ notedown = NotRun

(***************************************************************************)
(* File operations.                                                        *)
(***************************************************************************)
\* a faulty variant: open(f, "a"), which keeps the content of an existing file
OpenForAppend(f) ==
    /\ files' = [files EXCEPT ![f] = IF @ = None THEN "" ELSE @]
    /\ executable' = IF f \in Scripts /\ files[f] = None
                     THEN [executable EXCEPT ![f] = FALSE]
                     ELSE executable

\* open(f, "w"): creates or truncates; a created file has no execute bit
OpenForWrite(f) ==
    /\ files' = [files EXCEPT ![f] = ""]
    /\ executable' = IF f \in Scripts /\ files[f] = None
                     THEN [executable EXCEPT ![f] = FALSE]
                     ELSE executable

\* handle.write(s)
Write(f, s) ==
    /\ files' = [files EXCEPT ![f] = @ \o s]
    /\ UNCHANGED executable

\* os.chmod(f, 0o755)
Chmod(f) ==
    /\ executable' = [executable EXCEPT ![f] = TRUE]
    /\ UNCHANGED files

\* sys.exit(status), or the end of main()
Exit(status) ==
    /\ pc' = "exited"
    /\ exit_status' = status

Running(at) == pc = at /\ exit_status = -1

Goto(next) == pc' = next /\ UNCHANGED exit_status

(***************************************************************************)
(* main(), one action for each statement.                                  *)
(***************************************************************************)
\* line 227 and read_yaml_file
ReadYamlFile ==
    /\ Running("read_yaml_file")
    /\ IF project_file.state = "missing"
       THEN /\ stdout' = [template |-> "File '%s' not found in folder '%s'",
                          args |-> <<PROJECT_FILE, PROJECT_DIR>>]
            /\ Exit(1)
            /\ UNCHANGED yaml_file
       ELSE IF project_file.state = "malformed"
       THEN /\ stdout' = [template |-> "%s", args |-> <<"yaml.YAMLError">>]
            /\ Exit(1)
            /\ UNCHANGED yaml_file
       ELSE /\ yaml_file' = project_file.doc
            /\ Goto("get_base_image")
            /\ UNCHANGED stdout
    /\ UNCHANGED <<project_file, readme, files, executable, base_image, traceback, notedown>>

\* line 228
GetBaseImage ==
    /\ Running("get_base_image")
    /\ LET r == get_base_image(yaml_file) IN
       IF r.exit = 1
       THEN /\ stdout' = [template |-> r.template, args |-> r.args]
            /\ Exit(1)
            /\ UNCHANGED base_image
       ELSE /\ base_image' = r.image
            /\ Goto("open_dockerfile")
            /\ UNCHANGED stdout
    /\ UNCHANGED <<project_file, readme, files, executable, yaml_file, traceback, notedown>>

\* a statement that only touches the file system and falls through
FileStep(at, op, next) ==
    /\ Running(at)
    /\ op
    /\ Goto(next)
    /\ UNCHANGED <<project_file, readme, yaml_file, base_image, stdout, traceback, notedown>>

\* line 230
OpenDockerfile == FileStep("open_dockerfile", OpenForWrite(DOCKER_FILE), "write_from")

\* line 231
WriteFrom ==
    FileStep("write_from", Write(DOCKER_FILE, Format("FROM %s\n", <<base_image>>)),
             "write_jupyterlab")

\* line 232
WriteJupyterlab ==
    FileStep("write_jupyterlab", Write(DOCKER_FILE, DOCKER_JUPYTERLAB), "write_apt_packages")

\* line 233
WriteAptPackages ==
    FileStep("write_apt_packages", Write(DOCKER_FILE, apt_packages(yaml_file)),
             "write_source_packages")

\* line 234
WriteSourcePackages ==
    FileStep("write_source_packages", Write(DOCKER_FILE, source_packages(yaml_file)),
             "write_copy_repo")

\* a faulty variant: custom commands replace the copy of the repository too
WriteCopyRepo_unless_custom ==
    FileStep("write_copy_repo",
             Write(DOCKER_FILE, IF Has(yaml_file, "custom") THEN "" ELSE DOCKER_COPY_REPO),
             "write_build_commands")

\* line 235
WriteCopyRepo ==
    FileStep("write_copy_repo", Write(DOCKER_FILE, DOCKER_COPY_REPO), "write_build_commands")

\* lines 236-239
WriteBuildCommands ==
    FileStep("write_build_commands", Write(DOCKER_FILE, build_commands(yaml_file)),
             "open_build_file")

\* line 241
OpenBuildFile == FileStep("open_build_file", OpenForWrite(BUILD_FILE), "write_build_script")

\* a write of  template % (..., yaml_file['name']): KeyError when the key is missing
WriteNamed(at, f, template, args, next) ==
    /\ Running(at)
    /\ IF Has(yaml_file, "name")
       THEN /\ Write(f, Format(template, args))
            /\ Goto(next)
            /\ UNCHANGED traceback
       ELSE /\ traceback' = "KeyError: 'name'"
            /\ Exit(1)
            /\ UNCHANGED <<files, executable>>
    /\ UNCHANGED <<project_file, readme, yaml_file, base_image, stdout, notedown>>

\* line 242
WriteBuildScript ==
    WriteNamed("write_build_script", BUILD_FILE, BUILD_SCRIPT,
               <<DOCKER_FILE, IF Has(yaml_file, "name") THEN yaml_file["name"] ELSE None>>,
               "chmod_build_file")

\* line 243
ChmodBuildFile == FileStep("chmod_build_file", Chmod(BUILD_FILE), "open_run_file")

\* line 245
OpenRunFile == FileStep("open_run_file", OpenForWrite(RUN_FILE), "write_run_script")

\* lines 246-250
WriteRunScript ==
    WriteNamed("write_run_script", RUN_FILE, run_script(base_image),
               <<IF Has(yaml_file, "name") THEN yaml_file["name"] ELSE None>>,
               "chmod_run_file")

\* line 251
ChmodRunFile == FileStep("chmod_run_file", Chmod(RUN_FILE), "open_ignore_file")

\* line 253
OpenIgnoreFile == FileStep("open_ignore_file", OpenForWrite(DOCKER_IGNORE_FILE), "write_ignore_file")

\* line 254
WriteIgnoreFile ==
    FileStep("write_ignore_file", Write(DOCKER_IGNORE_FILE, DOCKER_IGNORE_CONTENTS), "check_readme")

\* line 256; without README.md main() returns
CheckReadme ==
    /\ Running("check_readme")
    /\ IF readme THEN Goto("notedown") ELSE Exit(0)
    /\ UNCHANGED <<project_file, readme, files, executable, yaml_file, base_image,
                   stdout, traceback, notedown>>

\* a faulty variant: a failing converter ends the run with status 1
Notedown_checked ==
    /\ Running("notedown")
    /\ \E r \in NotedownRuns :
          /\ notedown' = r
          /\ files' = [files EXCEPT ![NOTEBOOK_FILE] = notedown_pipeline(r.lines)]
          /\ IF r.status = 0 THEN Goto("append_notebook_tail") ELSE Exit(1)
    /\ UNCHANGED <<project_file, readme, executable, yaml_file, base_image, stdout, traceback>>

\* line 257: the shell truncates README.ipynb and head fills it; the status
\* os.system returns is dropped
Notedown ==
    /\ Running("notedown")
    /\ \E r \in NotedownRuns :
          /\ notedown' = r
          /\ files' = [files EXCEPT ![NOTEBOOK_FILE] = notedown_pipeline(r.lines)]
    /\ Goto("append_notebook_tail")
    /\ UNCHANGED <<project_file, readme, executable, yaml_file, base_image, stdout, traceback>>

\* lines 258-259: open(..., "a") and write, then main() returns
AppendNotebookTail ==
    /\ Running("append_notebook_tail")
    /\ files' = [files EXCEPT ![NOTEBOOK_FILE] = (IF @ = None THEN "" ELSE @) \o NOTEBOOK_TAIL]
    /\ Exit(0)
    /\ UNCHANGED <<project_file, readme, executable, yaml_file, base_image, stdout,
                   traceback, notedown>>

\* lines 261-262: the generator is started again in the same directory
Rerun ==
    /\ pc = "exited"
    /\ pc' = "read_yaml_file"
    /\ yaml_file' = Mapping(<<>>)
    /\ base_image' = None
    /\ stdout' = NoOutput
    /\ traceback' = None
    /\ exit_status' = -1
    /\ notedown' = NotRun
    /\ UNCHANGED <<project_file, readme, files, executable>>

Next ==
    \/ ReadYamlFile
    \/ GetBaseImage
    \/ OpenDockerfile
    \/ WriteFrom
    \/ WriteJupyterlab
    \/ WriteAptPackages
    \/ WriteSourcePackages
    \/ WriteCopyRepo
    \/ WriteBuildCommands
    \/ OpenBuildFile
    \/ WriteBuildScript
    \/ ChmodBuildFile
    \/ OpenRunFile
    \/ WriteRunScript
    \/ ChmodRunFile
    \/ OpenIgnoreFile
    \/ WriteIgnoreFile
    \/ CheckReadme
    \/ Notedown
    \/ AppendNotebookTail
    \/ Rerun

Spec == Init /\ [][Next]_vars

(***************************************************************************)
(* Vocabulary of the properties.                                           *)
(***************************************************************************)
doc == project_file.doc

Validated == project_file.state = "ok" /\ get_base_image(doc).exit = 0

Suffix(s, n) == SubSeq(s, Len(s) - n + 1, Len(s))

EndsWith(s, t) == Len(t) <= Len(s) /\ Suffix(s, Len(t)) = t

Contains(s, t) == \E i \in 1..(Len(s) - Len(t) + 1) : SubSeq(s, i, i + Len(t) - 1) = t

RECURSIVE Concat(_)
Concat(texts) == IF texts = <<>> THEN "" ELSE Head(texts) \o Concat(Tail(texts))

\* a generated file differs from what the directory held before the first run
Written(f) == files[f] # FreshDir[f] /\ files[f] # StaleDir[f]

\* C1: whenever one of the four output files has been written or truncated,
\* the configuration has passed all validation and contains name.
C1_NoOutputUnlessValidAndNamed ==
    (\E f \in GeneratedFiles : Written(f)) => (Validated /\ Has(doc, "name"))

\* the documented reference for the parts of a validated base section
DocumentedImage(system, version, cuda, opengl) ==
    CASE cuda # {} /\ opengl # {} ->
            Concat(<<"nvidia/cudagl:", CHOOSE c \in cuda : TRUE, "-devel-", system, version>>)
      [] cuda # {} /\ opengl = {} ->
            Concat(<<"nvidia/cuda:", CHOOSE c \in cuda : TRUE, "-cudnn7-devel-", system, version>>)
      [] cuda = {} /\ opengl # {} ->
            Concat(<<"nvidia/opengl:1.0-glvnd-devel-", system, version>>)
      [] cuda = {} /\ opengl = {} ->
            Concat(<<system, ":", version>>)

\* the supported system a configured system name denotes, whatever its case
SystemNamed(s) == CHOOSE t \in Range(SUPPORTED_SYSTEMS) : lower(s) = t

\* C2: for a base section that passes validation the resolved reference is
\* the documented template of its cuda/opengl combination, over the
\* lower-cased system name; Ubuntu/18.04 renders as ubuntu:18.04.
C2_BaseImageTemplates ==
    (exit_status = -1 /\ pc \notin {"read_yaml_file", "get_base_image"}) =>
        LET base == doc["base"] IN
        /\ base_image =
             DocumentedImage(SystemNamed(base["system"]), str(base["version"]),
                             IF Has(base, "cuda") THEN {str(base["cuda"])} ELSE {},
                             IF Has(base, "opengl") THEN {str(base["opengl"])} ELSE {})
        /\ (base["system"] = "Ubuntu" /\ str(base["version"]) = "18.04"
              /\ ~Has(base, "cuda") /\ ~Has(base, "opengl")) => base_image = "ubuntu:18.04"

C2_Witness ==
    /\ pc = "open_dockerfile"
    /\ doc["base"]["system"] = "Ubuntu"
    /\ base_image = "nvidia/cudagl:10.0-devel-ubuntu18.04"

\* C3: the run script written is the GPU/X11 variant exactly when the
\* reference starts with nvidia, which is exactly when base.cuda or
\* base.opengl is present; both variants end by running the image tagged
\* name with port 8888 published.
C3_RunScriptVariant ==
    (exit_status = -1 /\ pc \in {"chmod_run_file", "open_ignore_file", "write_ignore_file",
                                 "check_readme", "notedown", "append_notebook_tail"}) =>
        LET gpu == Has(doc["base"], "cuda") \/ Has(doc["base"], "opengl") IN
        /\ (Prefix(base_image, 6) = "nvidia") <=> gpu
        /\ gpu <=> files[RUN_FILE] = Format(NVIDIA_RUN_SCRIPT, <<doc["name"]>>)
        /\ ~gpu <=> files[RUN_FILE] = "#!/bin/sh\ndocker run --rm -p 8888:8888 " \o doc["name"]
        /\ EndsWith(files[RUN_FILE], " -p 8888:8888 " \o doc["name"])
        /\ Contains(files[RUN_FILE], "\ndocker run --rm ")

C3_Witness ==
    /\ pc = "chmod_run_file"
    /\ Has(doc["base"], "opengl") /\ ~Has(doc["base"], "cuda")
    /\ Contains(files[RUN_FILE], "--runtime=nvidia")

\* the positions of main() at which the build specification is complete
AfterDockerfile ==
    {"open_build_file", "write_build_script", "chmod_build_file", "open_run_file",
     "write_run_script", "chmod_run_file", "open_ignore_file", "write_ignore_file",
     "check_readme", "notedown", "append_notebook_tail"}

DockerfileComplete == (exit_status = -1 /\ pc \in AfterDockerfile) \/ exit_status = 0

\* one "RUN <command>" line for each command, in order
RunLines(commands) == JoinLines([i \in 1..Len(commands) |-> "RUN " \o commands[i]])

DefaultBuildBlock == "\nRUN mkdir build \\\n && cd build \\\n && cmake .. \\\n && make -j2\n"

CopyRepoBlock == "\nCOPY . ${HOME}\nRUN chown -R ${NB_UID} ${HOME}\nUSER ${NB_USER}\n"

\* C4: a complete build specification holds exactly one of the custom
\* commands and the default build block after the copy-repository block:
\* with custom present, one RUN line per entry in declared order and no
\* default block; with custom absent, the default block.
C4_CustomOrDefaultBuild ==
    DockerfileComplete =>
        IF Has(doc, "custom")
        THEN /\ EndsWith(files[DOCKER_FILE], CopyRepoBlock \o RunLines(doc["custom"]))
             /\ ~Contains(files[DOCKER_FILE], DefaultBuildBlock)
        ELSE /\ EndsWith(files[DOCKER_FILE], CopyRepoBlock \o DefaultBuildBlock)
             /\ \A c \in Commands : ~Contains(files[DOCKER_FILE], "RUN " \o c \o "\n")

C4_Witness ==
    /\ pc = "open_build_file"
    /\ Has(doc, "custom")
    /\ doc["custom"] = <<"pip3 install numpy", "make -C src">>
    /\ EndsWith(files[DOCKER_FILE], "RUN pip3 install numpy\nRUN make -C src\n")

\* the install block for a list of package names
InstallBlock(packages) ==
    "\nRUN apt-get update \\\n && apt-get install -yq --no-install-recommends \\\n"
    \o Concat([i \in 1..Len(packages) |-> "    " \o packages[i] \o " \\\n"])
    \o " && apt-get clean \\\n && rm -rf /var/lib/apt/lists/*\n"

\* the fetch-build-install block of one source package
FetchBuildInstallBlock(repo, name) ==
    Concat(<<"\nRUN git clone ", repo, " /", name, " \\\n",
             " && cd /", name, " \\\n",
             " && mkdir build \\\n && cd build \\\n && cmake .. \\\n && make -j2 install \\\n",
             " && rm -fr /", name, "\n">>)

ExpectedApt(d) == IF Has(d, "apt-packages") THEN InstallBlock(d["apt-packages"]) ELSE ""

ExpectedSource(d) ==
    IF Has(d, "source-packages")
    THEN LET sp == d["source-packages"] IN
         Concat([i \in 1..Len(sp) |->
                   (IF Has(sp[i], "depends") /\ Len(sp[i]["depends"]) > 0
                    THEN InstallBlock(sp[i]["depends"]) ELSE "")
                   \o FetchBuildInstallBlock(sp[i]["repo"], sp[i]["name"])])
    ELSE ""

ExpectedBuild(d) == IF Has(d, "custom") THEN RunLines(d["custom"]) ELSE DefaultBuildBlock

\* the fragments of the build specification in their documented order
Fragments(d) ==
    <<"FROM " \o get_base_image(d).image \o "\n", DOCKER_JUPYTERLAB, ExpectedApt(d),
      ExpectedSource(d), CopyRepoBlock, ExpectedBuild(d)>>

\* how many fragments have been written at each position of main()
FragmentsWrittenAt ==
    [write_from |-> 0, write_jupyterlab |-> 1, write_apt_packages |-> 2,
     write_source_packages |-> 3, write_copy_repo |-> 4, write_build_commands |-> 5]

\* C5: the build specification is the concatenation of the FROM line, the
\* notebook block, the system-packages, source-packages and copy-repository
\* fragments and the custom or default build fragment, written in that
\* order: at every position it holds exactly the fragments before it.
C5_FragmentOrder ==
    /\ (exit_status = -1 /\ pc \in DOMAIN FragmentsWrittenAt) =>
          files[DOCKER_FILE] = Concat(SubSeq(Fragments(doc), 1, FragmentsWrittenAt[pc]))
    /\ DockerfileComplete => files[DOCKER_FILE] = Concat(Fragments(doc))

C5_Witness ==
    /\ exit_status = 0
    /\ ~Has(doc, "apt-packages") /\ Has(doc, "source-packages") /\ Has(doc, "custom")
    /\ doc["source-packages"] # <<>> /\ doc["custom"] # <<>>
    /\ Prefix(files[DOCKER_FILE], 18) = "FROM ubuntu:18.04\n"

\* C6: source_packages emits, per entry in declared order, the entry's
\* fetch-build-install block, preceded by an install block of its depends
\* exactly when depends is present and non-empty, and nothing when the key
\* is absent.
C6_SourcePackages ==
    [][pc = "write_source_packages" =>
         files'[DOCKER_FILE] = files[DOCKER_FILE] \o ExpectedSource(doc)]_vars

C6_Witness ==
    /\ pc = "write_copy_repo"
    /\ Has(doc, "source-packages")
    /\ Len(doc["source-packages"]) = 2
    /\ Has(doc["source-packages"][1], "depends") /\ doc["source-packages"][1]["depends"] = <<>>
    /\ Has(doc["source-packages"][2], "depends") /\ doc["source-packages"][2]["depends"] # <<>>
    /\ Contains(files[DOCKER_FILE], "    libx11-dev \\\n    vim \\\n")

\* C7: apt_packages emits nothing when apt-packages is absent, and else one
\* install block with the configured names, one per continuation line, in
\* declared order.
C7_AptPackages ==
    [][pc = "write_apt_packages" =>
         files'[DOCKER_FILE] = files[DOCKER_FILE] \o ExpectedApt(doc)]_vars

C7_Witness ==
    /\ pc = "write_source_packages"
    /\ Has(doc, "apt-packages")
    /\ doc["apt-packages"] = <<"vim", "git">>
    /\ EndsWith(files[DOCKER_FILE], "    vim \\\n    git \\\n && apt-get clean \\\n && rm -rf /var/lib/apt/lists/*\n")

\* the four files as a function of the configuration alone
Outputs(d) ==
    LET gpu == Has(d["base"], "cuda") \/ Has(d["base"], "opengl") IN
    (DOCKER_FILE :> Concat(Fragments(d)))
    @@ (BUILD_FILE :> "#!/bin/sh\ndocker build -f repolab.dockerfile -t " \o d["name"] \o " .")
    @@ (RUN_FILE :> Format(IF gpu THEN NVIDIA_RUN_SCRIPT ELSE RUN_SCRIPT, <<d["name"]>>))
    @@ (DOCKER_IGNORE_FILE :>
          "README.md\n.dockerignore\nrepolab.yaml\nrepolab.dockerfile\nrepolab_build.sh\nrepolab_run.sh\n")

\* the position of main() at which each script is marked executable
ChmodAt == (BUILD_FILE :> "chmod_build_file") @@ (RUN_FILE :> "chmod_run_file")

\* C8: after a successful run the four files hold what the configuration
\* alone determines, whatever they held before and however often the
\* generator has run; a script gains its execute bits only when its content
\* is already written.
C8_WriteTruncate ==
    /\ [](exit_status = 0 =>
            /\ \A f \in GeneratedFiles : files[f] = Outputs(doc)[f]
            /\ \A f \in Scripts : executable[f])
    /\ [][\A f \in Scripts :
            (pc = ChmodAt[f] \/ (executable'[f] /\ ~executable[f]))
               => /\ pc = ChmodAt[f]
                  /\ executable'[f]
                  /\ files[f] = Outputs(doc)[f]
                  /\ files'[f] = files[f]]_vars

\* a later run has rewritten the build script and marked it executable,
\* while the run script and the ignore file are still those of the run before
C8_Witness ==
    /\ pc = "open_run_file"
    /\ Has(doc, "apt-packages") /\ doc["apt-packages"] # <<>>
    /\ files[BUILD_FILE] = "#!/bin/sh\ndocker build -f repolab.dockerfile -t demo ."
    /\ executable[BUILD_FILE]
    /\ files[RUN_FILE] = "#!/bin/sh\ndocker run --rm -p 8888:8888 demo"
    /\ files[DOCKER_IGNORE_FILE] = DOCKER_IGNORE_CONTENTS

\* C9: the conversion runs exactly when README.md exists and only after the
\* four files are written; whatever the converter's exit status the four
\* files stay as written, the trailer is appended and the process ends with
\* status 0.
C9_NotebookConversion ==
    /\ []((exit_status = -1 /\ pc \in {"notedown", "append_notebook_tail"}) =>
            (readme /\ \A f \in GeneratedFiles : files[f] = Outputs(doc)[f]))
    /\ [][/\ files'[NOTEBOOK_FILE] # files[NOTEBOOK_FILE] =>
                pc \in {"notedown", "append_notebook_tail"}
          /\ pc = "check_readme" =>
                IF readme THEN pc' = "notedown" /\ exit_status' = -1 ELSE exit_status' = 0
          /\ pc = "notedown" =>
                /\ pc' = "append_notebook_tail" /\ exit_status' = -1
                /\ \A f \in GeneratedFiles : files'[f] = files[f]
          /\ pc = "append_notebook_tail" =>
                /\ exit_status' = 0
                /\ files'[NOTEBOOK_FILE] =
                     JoinLines(HeadAllBut(notedown.lines, 4)) \o NOTEBOOK_TAIL
                /\ \A f \in GeneratedFiles : files'[f] = files[f]]_vars

C9_Witness ==
    /\ exit_status = 0
    /\ readme
    /\ notedown.status # 0
    /\ files[NOTEBOOK_FILE] = NOTEBOOK_TAIL
    /\ \A f \in GeneratedFiles : files[f] = Outputs(doc)[f]

\* the version whitelist of a system; a system outside the table has none
VersionsOf(system) ==
    IF system \in DOMAIN SUPPORTED_VERSIONS /\ system \in Range(SUPPORTED_SYSTEMS)
    THEN Range(SUPPORTED_VERSIONS[system]) ELSE {}

\* The checks of the base section in their documented order, each with the
\* diagnostic it prints and the value the diagnostic names; a check is
\* listed when the configuration fails it, taken on its own.
FailedChecks(d) ==
    LET base == IF Has(d, "base") THEN d["base"] ELSE Mapping(<<>>) IN
    {c \in {[order |-> 1, template |-> MSG_KEY_FILE, names |-> "'base'",
             failed |-> ~Has(d, "base")],
            [order |-> 2, template |-> MSG_KEY_BASE, names |-> "'system'",
             failed |-> ~Has(base, "system")],
            [order |-> 3, template |-> MSG_KEY_BASE, names |-> "'version'",
             failed |-> ~Has(base, "version")],
            [order |-> 4, template |-> MSG_SYSTEM,
             names |-> IF Has(base, "system") THEN lower(base["system"]) ELSE "",
             failed |-> Has(base, "system")
                          /\ lower(base["system"]) \notin Range(SUPPORTED_SYSTEMS)],
            [order |-> 5, template |-> MSG_VERSION,
             names |-> IF Has(base, "version") THEN str(base["version"]) ELSE "",
             failed |-> Has(base, "version") /\ Has(base, "system")
                          /\ str(base["version"]) \notin VersionsOf(lower(base["system"]))],
            [order |-> 6, template |-> MSG_CUDA,
             names |-> IF Has(base, "cuda") THEN str(base["cuda"]) ELSE "",
             failed |-> Has(base, "cuda")
                          /\ str(base["cuda"]) \notin Range(SUPPORTED_VERSIONS["cuda"])],
            [order |-> 7, template |-> MSG_OPENGL,
             names |-> IF Has(base, "opengl") THEN str(base["opengl"]) ELSE "",
             failed |-> Has(base, "opengl")
                          /\ str(base["opengl"]) \notin Range(SUPPORTED_VERSIONS["opengl"])]} :
       c.failed}

\* C10: base validation stops at the first failing check in the order
\* base, system, version keys, system whitelist, version whitelist, CUDA,
\* OpenGL: it exits with status 1 and prints that check's diagnostic only;
\* with no failing check (absent cuda or opengl never fails) it goes on.
C10_FirstFailingCheck ==
    [][pc = "get_base_image" =>
         IF FailedChecks(doc) = {}
         THEN exit_status' = -1 /\ pc' = "open_dockerfile" /\ stdout' = stdout
         ELSE LET first == CHOOSE c \in FailedChecks(doc) :
                              \A o \in FailedChecks(doc) : c.order <= o.order
              IN  /\ exit_status' = 1
                  /\ stdout'.template = first.template
                  /\ stdout'.args[1] = first.names
                  /\ files' = files]_vars

C10_Witness ==
    /\ exit_status = 1
    /\ stdout.template = MSG_SYSTEM
    /\ stdout.args[1] = "fedora"
    /\ Cardinality(FailedChecks(doc)) >= 3

====
